---- MODULE Spec2Model ----
(***************************************************************************)
(* A model of hub/src/server/drivers/GhDriver.js: the GitHub storage       *)
(* driver of the gaia hub.  A driver is constructed from a configuration,  *)
(* then serves performWrite (buffer a stream, commit it with one           *)
(* createFile call, resolve with the read URL) and listFiles (one          *)
(* getContents call mapped to the entries' names).                         *)
(*                                                                         *)
(* JavaScript strings are sequences of one-character strings, so that      *)
(* indexOf and the template literals are computed character by character.  *)
(***************************************************************************)
EXTENDS Integers, Sequences, FiniteSets, TLC

VARIABLES
    config,   \* the argument of the constructor
    driver,   \* the GhDriver instance: owner, repo, path, ref, oc
    writes,   \* one record per performWrite call: closure, stream, promise
    calls,    \* per write, the createFile calls issued to the backend
    files,    \* the backend's stored files: the commits made by createFile
    lists,    \* one record per listFiles call: params, backend call, promise
    ret,      \* what the last call of isPathValid or getReadURLPrefix returned
    client    \* what the octokit client fulfils its promises with

vars == <<config, driver, writes, calls, files, lists, ret, client>>

(***************************************************************************)
(* Bounds of the model.                                                    *)
(***************************************************************************)
MaxChunks == 2      \* data events one stream delivers
MaxErrors == 1      \* error events one stream emits
MaxEntries == 2     \* directory entries one getContents response holds

(***************************************************************************)
(* String literals of the source.                                          *)
(***************************************************************************)
S_token == <<"t", "o", "k", "e", "n">>
S_oauth == <<"o", "a", "u", "t", "h">>
S_slash == <<"/">>
S_master == <<"m", "a", "s", "t", "e", "r">>
S_dotdot == <<".", ".">>
S_rawhost ==
    <<"h", "t", "t", "p", "s", ":", "/", "/", "r", "a", "w", ".",
      "g", "i", "t", "h", "u", "b", "u", "s", "e", "r",
      "c", "o", "n", "t", "e", "n", "t", ".", "c", "o", "m", "/">>

\* A property of an object that was never set.
Undefined == [t |-> "undefined", s |-> <<>>]
Str(s) == [t |-> "string", s |-> s]

(***************************************************************************)
(* The messages of the errors the constructor throws (lines 32-65).        *)
(***************************************************************************)
ConfigMissing == "Configuration is missing for GitHub driver"
NoTokenForToken == "Using token authentication but no token supplied"
NoTokenForOauth == "Using oauth authentication but no token supplied"
UnsupportedAuthType ==
    "Using an unsupported auth type. Only \"token\" or \"oauth\" are supported"
NoOwner == "You must supply an owner"
NoRepo == "You must supply an repo"

MissingCredential == {NoTokenForToken, NoTokenForOauth}
MissingIdentifier == {NoOwner, NoRepo}

(***************************************************************************)
(* Configurations.  config.ghConfig is an object: a function from the keys *)
(* it has to strings.  hasGh is FALSE when config.ghConfig is not there.   *)
(***************************************************************************)
Keys == {"authtype", "token", "baseurl", "owner", "repo", "path", "ref"}

Absent == <<"#absent">>     \* input marker: the key is left out of ghConfig

KeyValues(k) ==
    CASE k = "authtype" -> {<<>>, S_token, S_oauth, <<"b", "a", "s", "i", "c">>}
      [] k = "token"    -> {<<>>, <<"s", "3", "c">>}
      [] k = "baseurl"  -> {<<"u">>}
      [] k = "owner"    -> {<<>>, <<"a", "c", "m", "e">>}
      [] k = "repo"     -> {<<>>, <<"s", "i", "t", "e">>}
      [] k = "path"     -> {<<>>, <<"/", "r">>}
      [] k = "ref"      -> {<<>>, <<"m", "a", "i", "n">>}

GhConfigOf(choice) ==
    [k \in {kk \in Keys : choice[kk] # Absent} |-> choice[k]]

Opt(k) == KeyValues(k) \cup {Absent}

AllConfigs ==
    {[hasGh |-> FALSE, gh |-> GhConfigOf([k \in Keys |-> Absent])]}
    \cup {[hasGh |-> TRUE,
           gh |-> GhConfigOf([authtype |-> a, token |-> t, baseurl |-> b,
                              owner |-> o, repo |-> r, path |-> p, ref |-> f])] :
            a \in Opt("authtype"), t \in Opt("token"), b \in Opt("baseurl"),
            o \in Opt("owner"), r \in Opt("repo"), p \in Opt("path"),
            f \in Opt("ref")}

\* const { authtype, ... } = config.ghConfig
Get(gh, k) == IF k \in DOMAIN gh THEN Str(gh[k]) ELSE Undefined

\* !v || v === ''
Falsy(v) == v.t = "undefined" \/ v.s = <<>>

(***************************************************************************)
(* constructor (lines 30-94): the instance, or the error thrown.           *)
(***************************************************************************)
Failed(msg) ==
    [state |-> "failed", error |-> msg, owner |-> <<>>, repo |-> <<>>,
     path |-> <<>>, ref |-> <<>>, oc |-> Undefined]

\* Mutant of authError: the 'oauth' case is missing from the switch.
authError_TokenOnly(authtype, token) ==
    IF authtype = Str(S_token)
    THEN (IF Falsy(token) THEN NoTokenForToken ELSE "")
    ELSE UnsupportedAuthType

\* switch (authtype) (lines 45-58): the message thrown, "" when none is
authError(authtype, token) ==
    IF authtype = Str(S_token)
    THEN (IF Falsy(token) THEN NoTokenForToken ELSE "")
    ELSE IF authtype = Str(S_oauth)
    THEN (IF Falsy(token) THEN NoTokenForOauth ELSE "")
    ELSE UnsupportedAuthType

\* the owner and repo checks (lines 60-67)
identError(owner, repo) ==
    IF Falsy(owner) THEN NoOwner
    ELSE IF Falsy(repo) THEN NoRepo
    ELSE ""

\* Mutant of pathOrDefault: an absent path is left empty.
pathOrDefault_NoDefault(path) == path.s

\* lines 68-73
pathOrDefault(path) == IF Falsy(path) THEN S_slash ELSE path.s

\* lines 74-79
refOrDefault(ref) == IF Falsy(ref) THEN S_master ELSE ref.s

\* lines 31-33
configMissing(cfg) == ~cfg.hasGh \/ Cardinality(DOMAIN cfg.gh) = 0

GhDriver(cfg) ==
    LET gh == cfg.gh
        authtype == Get(gh, "authtype")
        token == Get(gh, "token")
        owner == Get(gh, "owner")
        repo == Get(gh, "repo")
    IN  IF configMissing(cfg) THEN Failed(ConfigMissing)
        ELSE IF authError(authtype, token) # "" THEN Failed(authError(authtype, token))
        ELSE IF identError(owner, repo) # "" THEN Failed(identError(owner, repo))
        ELSE [state |-> "constructed", error |-> "",
              owner |-> owner.s, repo |-> repo.s,
              path |-> pathOrDefault(Get(gh, "path")),
              ref |-> refOrDefault(Get(gh, "ref")),
              oc |-> [t |-> "octokit", baseUrl |-> Get(gh, "baseurl"),
                      type |-> authtype.s, token |-> token.s]]

NotConstructed ==
    [state |-> "new", error |-> "", owner |-> <<>>, repo |-> <<>>,
     path |-> <<>>, ref |-> <<>>, oc |-> Undefined]

Construct ==
    /\ driver.state = "new"
    /\ driver' = GhDriver(config)
    /\ UNCHANGED <<config, writes, calls, files, lists, ret, client>>

(***************************************************************************)
(* Inputs of the operations.                                               *)
(***************************************************************************)
Paths == {<<"f">>, <<"a", ".", "b">>, <<".", ".", "/", "f">>}
TopLevels == {<<"s">>}
Chunks == {<<"x">>, <<"y">>}
Null == [t |-> "null", s |-> <<>>]
Pages == {Null, Str(<<"p">>)}
Entries == {[name |-> <<"a">>, type |-> "file"], [name |-> <<"b">>, type |-> "dir"]}
Responses == UNION {[1..n -> Entries] : n \in 0..MaxEntries}

(***************************************************************************)
(* Promises: settled once; a later resolve or reject changes nothing.      *)
(***************************************************************************)
NoError == [name |-> "", message |-> "", detail |-> <<>>]
NoValue == [url |-> <<>>, entries |-> <<>>, page |-> Undefined]
NoPromise == [state |-> "none", value |-> NoValue, error |-> NoError]
Pending == [state |-> "pending", value |-> NoValue, error |-> NoError]

Resolve(p, v) ==
    IF p.state = "pending" THEN [p EXCEPT !.state = "resolved", !.value = v] ELSE p

Reject(p, e) ==
    IF p.state = "pending" THEN [p EXCEPT !.state = "rejected", !.error = e] ELSE p

\* new BadPathError('Invalid Path') (line 114)
BadPathError == [name |-> "BadPathError", message |-> "Invalid Path", detail |-> <<>>]

\* new Error('GitHub storage driver failed: failed to write file' + ...) (lines 151-152)
StreamReadError(contentPath) ==
    [name |-> "Error",
     message |-> "GitHub storage driver failed: failed to write file",
     detail |-> contentPath]

(***************************************************************************)
(* isPathValid (lines 96-99) and String.prototype.indexOf.                 *)
(***************************************************************************)
Min(S) == CHOOSE x \in S : \A y \in S : x <= y

\* Mutant of indexOf: the search stops one position short of the end.
indexOf_SkipsLast(s, sub) ==
    LET hits == {i \in 1..(Len(s) - Len(sub)) :
                    SubSeq(s, i, i + Len(sub) - 1) = sub}
    IN  IF hits = {} THEN -1 ELSE Min(hits) - 1

\* the index (from 0) of the first occurrence of sub in s, -1 when none
indexOf(s, sub) ==
    LET hits == {i \in 1..(Len(s) - Len(sub) + 1) :
                    SubSeq(s, i, i + Len(sub) - 1) = sub}
    IN  IF hits = {} THEN -1 ELSE Min(hits) - 1

\* Mutant of isPathValid: only a ".." that follows a slash is refused.
isPathValid_AfterSlash(path) == indexOf(path, <<"/", ".", ".">>) = -1

isPathValid(path) == indexOf(path, S_dotdot) = -1

(***************************************************************************)
(* getReadURLPrefix (lines 101-103).                                       *)
(***************************************************************************)
getReadURLPrefix(d) ==
    S_rawhost \o d.owner \o S_slash \o d.repo \o S_slash \o d.ref \o S_slash

(***************************************************************************)
(* The calls that return at once: the static isPathValid and                *)
(* getReadURLPrefix.                                                       *)
(***************************************************************************)
NoReturn == [op |-> "", arg |-> <<>>, bool |-> FALSE, str |-> <<>>]

IsPathValid(path) ==
    /\ ret' = [op |-> "isPathValid", arg |-> path,
               bool |-> isPathValid(path), str |-> <<>>]
    /\ UNCHANGED <<config, driver, writes, calls, files, lists, client>>

ReadURLPrefix ==
    /\ driver.state = "constructed"
    /\ ret' = [op |-> "getReadURLPrefix", arg |-> <<>>,
               bool |-> FALSE, str |-> getReadURLPrefix(driver)]
    /\ UNCHANGED <<config, driver, writes, calls, files, lists, client>>

(***************************************************************************)
(* performWrite (lines 105-155).                                           *)
(***************************************************************************)
\* line 117
contentPathOf(storageTopLevel, path) == storageTopLevel \o S_slash \o path

\* line 119
downloadPathOf(d, contentPath) == getReadURLPrefix(d) \o S_slash \o contentPath

\* lines 121-132
ghParamsOf(d, contentPath) ==
    [owner |-> d.owner, repo |-> d.repo, path |-> contentPath,
     message |-> "TODO: add comment", branch |-> d.ref,
     committer |-> [name |-> "gaia", email |-> "someone@somewhere"],
     content |-> <<>>]

NoParams ==
    [owner |-> <<>>, repo |-> <<>>, path |-> <<>>, message |-> "",
     branch |-> <<>>, committer |-> [name |-> "", email |-> ""],
     content |-> <<>>]

IdleWrite ==
    [phase |-> "idle", path |-> <<>>, storageTopLevel |-> <<>>,
     receiverOc |-> FALSE, listening |-> FALSE,
     contentPath |-> <<>>, downloadPath |-> <<>>, ghParams |-> NoParams,
     contents |-> <<>>, promise |-> NoPromise,
     events |-> <<>>, uncaught |-> FALSE]

\* The call itself: the path check, the closure, the listeners (lines 113-154).
\* receiverOc tells whether the object the stream calls its listeners on
\* (for a Node stream: the stream itself) has an oc client of its own.
writeCalled(d, path, storageTopLevel, receiverOc) ==
    LET contentPath == contentPathOf(storageTopLevel, path)
        called == [IdleWrite EXCEPT !.phase = "called", !.path = path,
                       !.storageTopLevel = storageTopLevel,
                       !.receiverOc = receiverOc]
    IN  IF ~isPathValid(path)
        THEN [called EXCEPT !.promise = Reject(Pending, BadPathError)]
        ELSE [called EXCEPT !.listening = TRUE,
                            !.contentPath = contentPath,
                            !.downloadPath = downloadPathOf(d, contentPath),
                            !.ghParams = ghParamsOf(d, contentPath),
                            !.contents = <<>>,
                            !.promise = Pending]

\* Mutant of onData: the chunk is put in front of what was buffered.
onData_Prepend(wr, chunk) == [wr EXCEPT !.contents = chunk \o @]

\* .on('data', ...) (lines 137-139)
onData(wr, chunk) == [wr EXCEPT !.contents = @ \o chunk]

\* Mutant of onEnd: the promise is resolved when the call is issued, not
\* when it completes.
onEnd_ResolveAtOnce(wr) ==
    LET filled == [wr EXCEPT !.ghParams.content = wr.contents]
    IN  IF wr.receiverOc
        THEN [filled EXCEPT
                !.promise = Resolve(@, [NoValue EXCEPT !.url = wr.downloadPath])]
        ELSE [filled EXCEPT !.uncaught = TRUE]

\* .on('end', function () ...) (lines 140-148), up to the createFile call.
\* The listener is a plain function: its this is the receiver the stream
\* calls it on, not the driver, so this.oc is that receiver's oc.  Without
\* one, this.oc.repos throws a TypeError out of the listener.
onEnd(wr) ==
    LET filled == [wr EXCEPT !.ghParams.content = wr.contents]
    IN  IF wr.receiverOc THEN filled ELSE [filled EXCEPT !.uncaught = TRUE]

\* the createFile calls the end listener issues (line 142)
endCalls(wr) ==
    IF wr.receiverOc
    THEN <<[params |-> [wr.ghParams EXCEPT !.content = wr.contents],
            status |-> "inflight"]>>
    ELSE <<>>

\* Mutant of dataCalls: every chunk is committed as it arrives.
dataCalls_PerChunk(wr, chunk) ==
    <<[params |-> [wr.ghParams EXCEPT !.content = wr.contents \o chunk],
       status |-> "inflight"]>>

\* the createFile calls the data listener issues: none
dataCalls(wr, chunk) == <<>>

\* .on('error', ...) (lines 149-153)
onError(wr) ==
    [wr EXCEPT !.promise = Reject(@, StreamReadError(wr.contentPath))]

\* the createFile calls the error listener issues: none
errorCalls(wr) == <<>>

\* .then(results => ... resolve(downloadPath)) (lines 142-147).  Line 145
\* reads results.data.commit.sha before line 146 resolves: of an answer that
\* is the body itself results.data is undefined, the read throws a TypeError
\* inside the callback, and the promise is left as it was.
onCreated(wr, results) ==
    IF results.wrapped
    THEN [wr EXCEPT !.promise = Resolve(@, [NoValue EXCEPT !.url = wr.downloadPath])]
    ELSE wr

\* createFile's promise is rejected: it has no rejection handler (line 142)
onCreateFailed(wr) == wr

(***************************************************************************)
(* The stream of a write, as a Node Readable: data events until end, end   *)
(* at most once, error events at any time.                                 *)
(***************************************************************************)
DataEvent(chunk) == [type |-> "data", chunk |-> chunk]
EndEvent == [type |-> "end", chunk |-> <<>>]
ErrorEvent == [type |-> "error", chunk |-> <<>>]

Count(wr, type) == Cardinality({i \in 1..Len(wr.events) : wr.events[i].type = type})
Ended(wr) == Count(wr, "end") > 0

PerformWrite(w, path, storageTopLevel, receiverOc) ==
    /\ driver.state = "constructed"
    /\ writes[w].phase = "idle"
    /\ writes' = [writes EXCEPT
                    ![w] = writeCalled(driver, path, storageTopLevel, receiverOc)]
    /\ UNCHANGED <<config, driver, calls, files, lists, ret, client>>

\* Mutant of StreamData: contents is one buffer shared by all the writes
\* that are listening, not a variable of each call's closure.
StreamData_SharedBuffer(w, chunk) ==
    LET wr == [writes[w] EXCEPT !.events = Append(@, DataEvent(chunk))]
    IN  /\ writes[w].phase = "called"
        /\ ~Ended(writes[w])
        /\ Count(writes[w], "data") < MaxChunks
        /\ writes' = [v \in DOMAIN writes |->
                        IF ~wr.listening THEN (IF v = w THEN wr ELSE writes[v])
                        ELSE IF v = w THEN onData(wr, chunk)
                        ELSE IF writes[v].listening THEN onData(writes[v], chunk)
                        ELSE writes[v]]
        /\ UNCHANGED <<config, driver, calls, files, lists, ret, client>>

StreamData(w, chunk) ==
    LET wr == [writes[w] EXCEPT !.events = Append(@, DataEvent(chunk))]
    IN  /\ writes[w].phase = "called"
        /\ ~Ended(writes[w])
        /\ Count(writes[w], "data") < MaxChunks
        /\ writes' = [writes EXCEPT ![w] = IF wr.listening THEN onData(wr, chunk) ELSE wr]
        /\ calls' = [calls EXCEPT ![w] = IF wr.listening THEN @ \o dataCalls(wr, chunk) ELSE @]
        /\ UNCHANGED <<config, driver, files, lists, ret, client>>

StreamEnd(w) ==
    LET wr == [writes[w] EXCEPT !.events = Append(@, EndEvent)]
    IN  /\ writes[w].phase = "called"
        /\ ~Ended(writes[w])
        /\ writes' = [writes EXCEPT ![w] = IF wr.listening THEN onEnd(wr) ELSE wr]
        /\ calls' = [calls EXCEPT ![w] = IF wr.listening THEN @ \o endCalls(wr) ELSE @]
        /\ UNCHANGED <<config, driver, files, lists, ret, client>>

StreamError(w) ==
    LET wr == [writes[w] EXCEPT !.events = Append(@, ErrorEvent)]
    IN  /\ writes[w].phase = "called"
        /\ Count(writes[w], "error") < MaxErrors
        /\ writes' = [writes EXCEPT ![w] = IF wr.listening THEN onError(wr) ELSE wr]
        /\ calls' = [calls EXCEPT ![w] = IF wr.listening THEN @ \o errorCalls(wr) ELSE @]
        /\ UNCHANGED <<config, driver, files, lists, ret, client>>

(***************************************************************************)
(* What the octokit client fulfils the promise of a call with: the         *)
(* response object { data: body, ... }, as @octokit/rest documents and     *)
(* line 145 reads it, or the body itself, as line 177 reads it.  The       *)
(* library is not part of the repository; one client answers createFile    *)
(* and getContents by the same convention.                                 *)
(***************************************************************************)
Conventions == {"response", "body"}

Answer(convention, body) == [wrapped |-> convention = "response", body |-> body]

\* the body of the answer to a createFile call: the commit made
Created(params) == [commit |-> [sha |-> "sha", path |-> params.path]]

(***************************************************************************)
(* The backend's answer to a createFile call.                              *)
(***************************************************************************)
Location(params) ==
    [owner |-> params.owner, repo |-> params.repo,
     branch |-> params.branch, path |-> params.path]

Commit(fs, params) ==
    {f \in fs : f.loc # Location(params)}
    \cup {[loc |-> Location(params), content |-> params.content]}

CreateFileOk(w, i) ==
    /\ i \in 1..Len(calls[w])
    /\ calls[w][i].status = "inflight"
    /\ calls' = [calls EXCEPT ![w][i].status = "ok"]
    /\ files' = Commit(files, calls[w][i].params)
    /\ writes' = [writes EXCEPT
                    ![w] = onCreated(@, Answer(client, Created(calls[w][i].params)))]
    /\ UNCHANGED <<config, driver, lists, ret, client>>

CreateFileFail(w, i) ==
    /\ i \in 1..Len(calls[w])
    /\ calls[w][i].status = "inflight"
    /\ calls' = [calls EXCEPT ![w][i].status = "failed"]
    /\ writes' = [writes EXCEPT ![w] = onCreateFailed(@)]
    /\ UNCHANGED <<config, driver, files, lists, ret, client>>

(***************************************************************************)
(* listFiles (lines 157-188).                                              *)
(***************************************************************************)
\* lines 164-168
listParamsOf(d, storageTopLevel) ==
    [owner |-> d.owner, repo |-> d.repo,
     path |-> d.path \o S_slash \o storageTopLevel]

IdleList ==
    [phase |-> "idle", storageTopLevel |-> <<>>, page |-> Undefined,
     params |-> [owner |-> <<>>, repo |-> <<>>, path |-> <<>>],
     call |-> "none", results |-> <<>>, promise |-> NoPromise]

\* the call itself: the params and the getContents call (lines 159-175)
listCalled(d, storageTopLevel, page) ==
    [IdleList EXCEPT !.phase = "called", !.storageTopLevel = storageTopLevel,
                     !.page = page,
                     !.params = listParamsOf(d, storageTopLevel),
                     !.call = "inflight",
                     !.promise = Pending]

\* results.forEach(result => filenames.push(result.name)) (lines 176-179)
filenamesOf(results) == [i \in 1..Len(results) |-> results[i].name]

\* Mutant of onContents: the page passed in is handed back.
onContents_EchoPage(lr, results) ==
    IF results.wrapped
    THEN lr
    ELSE [lr EXCEPT !.promise =
            Resolve(@, [NoValue EXCEPT !.entries = filenamesOf(results.body),
                                       !.page = lr.page])]

\* .then(results => ... resolve(ret)) (lines 175-185).  Line 177 calls
\* results.forEach: a response object has no forEach, the call throws a
\* TypeError inside the callback, and the promise is left pending.
onContents(lr, results) ==
    IF results.wrapped
    THEN lr
    ELSE [lr EXCEPT !.promise =
            Resolve(@, [NoValue EXCEPT !.entries = filenamesOf(results.body),
                                       !.page = Null])]

\* getContents' promise is rejected: it has no rejection handler, and the
\* executor of line 174 takes no reject
onContentsFailed(lr) == lr

\* Mutant of ListFiles: the path listed is kept in this.path.
ListFiles_KeepsPath(l, storageTopLevel, page) ==
    /\ driver.state = "constructed"
    /\ lists[l].phase = "idle"
    /\ lists' = [lists EXCEPT ![l] = listCalled(driver, storageTopLevel, page)]
    /\ driver' = [driver EXCEPT !.path = listParamsOf(driver, storageTopLevel).path]
    /\ UNCHANGED <<config, writes, calls, files, ret, client>>

ListFiles(l, storageTopLevel, page) ==
    /\ driver.state = "constructed"
    /\ lists[l].phase = "idle"
    /\ lists' = [lists EXCEPT ![l] = listCalled(driver, storageTopLevel, page)]
    /\ UNCHANGED <<config, driver, writes, calls, files, ret, client>>

GetContentsOk(l, results) ==
    /\ lists[l].call = "inflight"
    /\ lists' = [lists EXCEPT
                   ![l] = onContents([@ EXCEPT !.call = "ok", !.results = results],
                                     Answer(client, results))]
    /\ UNCHANGED <<config, driver, writes, calls, files, ret, client>>

GetContentsFail(l) ==
    /\ lists[l].call = "inflight"
    /\ lists' = [lists EXCEPT ![l] = onContentsFailed([@ EXCEPT !.call = "failed"])]
    /\ UNCHANGED <<config, driver, writes, calls, files, ret, client>>

(***************************************************************************)
(* The driver in use: one construction, then writes and lists.             *)
(***************************************************************************)
WriteIds == {"w1"}
ListIds == {"l1"}

\* the configurations the operations are run under
OpConfigs ==
    {c \in AllConfigs :
        /\ c.hasGh
        /\ Get(c.gh, "authtype") = Str(S_token)
        /\ ~Falsy(Get(c.gh, "token"))
        /\ Get(c.gh, "baseurl") = Undefined
        /\ ~Falsy(Get(c.gh, "repo"))
        /\ Get(c.gh, "owner") # Str(<<>>)
        /\ Get(c.gh, "path") # Str(<<>>)
        /\ Get(c.gh, "ref") # Str(<<>>)
        /\ Falsy(Get(c.gh, "owner")) => Falsy(Get(c.gh, "path")) /\ Falsy(Get(c.gh, "ref"))
        /\ Falsy(Get(c.gh, "path")) = Falsy(Get(c.gh, "ref"))}

Init ==
    /\ config \in OpConfigs
    /\ driver = NotConstructed
    /\ writes = [w \in WriteIds |-> IdleWrite]
    /\ calls = [w \in WriteIds |-> <<>>]
    /\ files = {}
    /\ lists = [l \in ListIds |-> IdleList]
    /\ ret = NoReturn
    /\ client \in Conventions

Next ==
    \/ Construct
    \/ \E w \in DOMAIN writes, path \in Paths, top \in TopLevels, oc \in BOOLEAN :
          PerformWrite(w, path, top, oc)
    \/ \E w \in DOMAIN writes, chunk \in Chunks : StreamData(w, chunk)
    \/ \E w \in DOMAIN writes : StreamEnd(w)
    \/ \E w \in DOMAIN writes : StreamError(w)
    \/ \E w \in DOMAIN writes, i \in 1..MaxChunks + 2 : CreateFileOk(w, i)
    \/ \E w \in DOMAIN writes, i \in 1..MaxChunks + 2 : CreateFileFail(w, i)
    \/ \E l \in DOMAIN lists, top \in TopLevels, page \in Pages : ListFiles(l, top, page)
    \/ \E l \in DOMAIN lists, results \in Responses : GetContentsOk(l, results)
    \/ \E l \in DOMAIN lists : GetContentsFail(l)
    \/ ReadURLPrefix

Spec == Init /\ [][Next]_vars

InitConfig ==
    /\ config \in AllConfigs
    /\ driver = NotConstructed
    /\ writes = [w \in WriteIds |-> IdleWrite]
    /\ calls = [w \in WriteIds |-> <<>>]
    /\ files = {}
    /\ lists = [l \in ListIds |-> IdleList]
    /\ ret = NoReturn
    /\ client \in Conventions

NextConfig == Construct

SpecConfig == InitConfig /\ [][NextConfig]_vars

(***************************************************************************)
(* isPathValid on its own: every string over Alphabet of at most MaxLen    *)
(* characters.                                                             *)
(***************************************************************************)
MaxLen == 4

Alphabet == {".", "/", "a"}
Strings == UNION {[1..n -> Alphabet] : n \in 0..MaxLen}

NextPath == \E path \in Strings : IsPathValid(path)

SpecPath == Init /\ [][NextPath]_vars

(***************************************************************************)
(* Two writes at once on one driver instance, their stream events and the  *)
(* backend's answers interleaved in every order.  Here each stream emits   *)
(* at most one error, and calls its listeners on a receiver with an oc     *)
(* client, so that every write reaches the backend.                        *)
(***************************************************************************)
ConcIds == {"w1", "w2"}

\* the configuration with nothing but the required fields
ConcConfigs == {c \in OpConfigs : DOMAIN c.gh = {"authtype", "token", "owner", "repo"}}

InitConc ==
    /\ config \in ConcConfigs
    /\ driver = NotConstructed
    /\ writes = [w \in ConcIds |-> IdleWrite]
    /\ calls = [w \in ConcIds |-> <<>>]
    /\ files = {}
    /\ lists = [l \in ListIds |-> IdleList]
    /\ ret = NoReturn
    /\ client \in Conventions

NextConc ==
    \/ Construct
    \/ \E w \in DOMAIN writes, path \in Paths, top \in TopLevels :
          PerformWrite(w, path, top, TRUE)
    \/ \E w \in DOMAIN writes, chunk \in Chunks : StreamData(w, chunk)
    \/ \E w \in DOMAIN writes : StreamEnd(w)
    \/ \E w \in DOMAIN writes : Count(writes[w], "error") = 0 /\ StreamError(w)
    \/ \E w \in DOMAIN writes, i \in 1..MaxChunks + 2 : CreateFileOk(w, i)
    \/ \E w \in DOMAIN writes, i \in 1..MaxChunks + 2 : CreateFileFail(w, i)

SpecConc == InitConc /\ [][NextConc]_vars

(***************************************************************************)
(* Two lists on one driver instance, to compare calls that differ in the   *)
(* page passed.                                                            *)
(***************************************************************************)
PairIds == {"l1", "l2"}

InitList ==
    /\ config \in OpConfigs
    /\ driver = NotConstructed
    /\ writes = [w \in WriteIds |-> IdleWrite]
    /\ calls = [w \in WriteIds |-> <<>>]
    /\ files = {}
    /\ lists = [l \in PairIds |-> IdleList]
    /\ ret = NoReturn
    /\ client \in Conventions

NextList ==
    \/ Construct
    \/ \E l \in DOMAIN lists, top \in TopLevels, page \in Pages : ListFiles(l, top, page)
    \/ \E l \in DOMAIN lists, results \in Responses : GetContentsOk(l, results)
    \/ \E l \in DOMAIN lists : GetContentsFail(l)

SpecList == InitList /\ [][NextList]_vars

(***************************************************************************)
(* Properties of performWrite.                                             *)
(***************************************************************************)
Called(w) == writes[w].phase = "called"

\* two consecutive dots somewhere in p
ContainsDotDot(p) == \E i \in 1..Len(p) - 1 : p[i] = "." /\ p[i + 1] = "."

\* the stream has delivered data events, then end, and no error
CleanEnd(w) ==
    /\ Ended(writes[w])
    /\ Count(writes[w], "error") = 0

\* an error event was emitted before any end event
ErrorBeforeEnd(w) ==
    \E i \in 1..Len(writes[w].events) :
        /\ writes[w].events[i].type = "error"
        /\ \A j \in 1..i - 1 : writes[w].events[j].type # "end"

CallsWith(w, status) == {i \in 1..Len(calls[w]) : calls[w][i].status = status}

\* the URL of a write: readURLPrefix() followed by storageTopLevel/path
ExpectedURL(w) ==
    S_rawhost \o driver.owner \o <<"/">> \o driver.repo \o <<"/">> \o driver.ref
        \o <<"/">> \o writes[w].storageTopLevel \o <<"/">> \o writes[w].path

\* C1: a write with a valid path whose stream delivered data events and then
\* end, and of which the backend rejected nothing and has nothing left to
\* answer, is resolved with readURLPrefix() followed by storageTopLevel/path.
C1_WriteResolvesWithURL ==
    \A w \in DOMAIN writes :
        (/\ Called(w)
         /\ ~ContainsDotDot(writes[w].path)
         /\ CleanEnd(w)
         /\ CallsWith(w, "inflight") = {}
         /\ CallsWith(w, "failed") = {})
        => /\ writes[w].promise.state = "resolved"
           /\ writes[w].promise.value.url = ExpectedURL(w)

\* C2: a write whose createFile call the backend rejected is rejected.
C2_RejectedOnBackendFailure ==
    \A w \in DOMAIN writes :
        CallsWith(w, "failed") # {} => writes[w].promise.state = "rejected"

\* C3: a write whose path contains ".." is rejected with BadPathError and
\* has issued no backend call, whatever its stream has emitted since.
C3_BadPathNoBackendCall ==
    \A w \in DOMAIN writes :
        (Called(w) /\ ContainsDotDot(writes[w].path))
        => /\ writes[w].promise.state = "rejected"
           /\ writes[w].promise.error.name = "BadPathError"
           /\ calls[w] = <<>>

\* C3 witness: a rejected ".." write whose stream went on to deliver data and end.
C3_Witness ==
    \E w \in DOMAIN writes :
        /\ ContainsDotDot(writes[w].path)
        /\ writes[w].promise.error.name = "BadPathError"
        /\ Count(writes[w], "data") > 0
        /\ Ended(writes[w])
        /\ writes[w].receiverOc
        /\ calls[w] = <<>>

\* C4: a write with a valid path whose stream emitted an error before end is
\* rejected with the stream error and has issued no backend call.
C4_StreamErrorNoBackendCall ==
    \A w \in DOMAIN writes :
        (Called(w) /\ ~ContainsDotDot(writes[w].path) /\ ErrorBeforeEnd(w))
        => /\ writes[w].promise.state = "rejected"
           /\ writes[w].promise.error.message
                = "GitHub storage driver failed: failed to write file"
           /\ calls[w] = <<>>

\* C5: a write issues at most one createFile call.
C5_AtMostOneBackendCall ==
    \A w \in DOMAIN writes : Len(calls[w]) <= 1

\* C5 witness: the one call of a write has failed, the stream has delivered
\* data before its end and an error after it, and no second call was made.
C5_Witness ==
    \E w \in DOMAIN writes :
        /\ Len(calls[w]) = 1
        /\ calls[w][1].status = "failed"
        /\ Count(writes[w], "data") > 0
        /\ Count(writes[w], "error") > 0

\* C6: a resolved write has a createFile call that completed successfully.
C6_ResolvedOnlyAfterCommit ==
    \A w \in DOMAIN writes :
        writes[w].promise.state = "resolved" => CallsWith(w, "ok") # {}

\* C6 witness: a write resolved with a URL after its commit.
C6_Witness ==
    \E w \in DOMAIN writes :
        /\ writes[w].promise.state = "resolved"
        /\ writes[w].promise.value.url # <<>>
        /\ CallsWith(w, "ok") # {}

\* the chunks a stream delivered before its end, concatenated as they came
RECURSIVE Delivered(_)
Delivered(events) ==
    IF events = <<>> \/ Head(events).type = "end" THEN <<>>
    ELSE (IF Head(events).type = "data" THEN Head(events).chunk ELSE <<>>)
            \o Delivered(Tail(events))

EndsWith(s, suffix) ==
    /\ Len(s) >= Len(suffix)
    /\ SubSeq(s, Len(s) - Len(suffix) + 1, Len(s)) = suffix

OwnPath(w) == writes[w].storageTopLevel \o <<"/">> \o writes[w].path

\* C12: with two writes running at once, every createFile call of a write
\* carries that write's own storageTopLevel/path and exactly the chunks of
\* its own stream, and a resolved write has the URL of its own path.
C12_WritesAreIsolated ==
    \A w \in DOMAIN writes :
        /\ \A i \in 1..Len(calls[w]) :
              /\ calls[w][i].params.path = OwnPath(w)
              /\ calls[w][i].params.content = Delivered(writes[w].events)
        /\ writes[w].promise.state = "resolved"
              => EndsWith(writes[w].promise.value.url, <<"/">> \o OwnPath(w))

\* C12 witness: one write is resolved from two chunks while the other, with
\* another path, is still buffering other chunks of its stream.
C12_Witness ==
    \E w, v \in DOMAIN writes :
        /\ w # v
        /\ writes[w].promise.state = "resolved"
        /\ Len(calls[w][1].params.content) = 2
        /\ writes[v].listening
        /\ ~Ended(writes[v])
        /\ writes[v].path # writes[w].path
        /\ writes[v].contents # <<>>
        /\ writes[v].contents[1] # calls[w][1].params.content[1]

\* the read URL prefix the configuration fixes at construction
ConfigPrefix ==
    S_rawhost \o config.gh["owner"] \o <<"/">> \o config.gh["repo"] \o <<"/">>
        \o (IF "ref" \in DOMAIN config.gh /\ config.gh["ref"] # <<>>
             THEN config.gh["ref"] ELSE <<"m", "a", "s", "t", "e", "r">>)
        \o <<"/">>

\* C13: whatever writes, lists and getReadURLPrefix calls have run, the
\* instance's owner, repo, path and ref are those of the configuration, and
\* getReadURLPrefix has returned the prefix the configuration fixes.
C13_ConfigIsStable ==
    driver.state = "constructed"
    => /\ driver.owner = config.gh["owner"]
       /\ driver.repo = config.gh["repo"]
       /\ driver.path = (IF "path" \in DOMAIN config.gh /\ config.gh["path"] # <<>>
                          THEN config.gh["path"] ELSE <<"/">>)
       /\ driver.ref = (IF "ref" \in DOMAIN config.gh /\ config.gh["ref"] # <<>>
                         THEN config.gh["ref"] ELSE <<"m", "a", "s", "t", "e", "r">>)
       /\ ret.op = "getReadURLPrefix" => ret.str = ConfigPrefix

\* C13 witness: getReadURLPrefix has returned after a write was rejected,
\* its commit was made all the same, and a list was resolved.
C13_Witness ==
    /\ ret.op = "getReadURLPrefix"
    /\ \E w \in DOMAIN writes :
          writes[w].promise.state = "rejected" /\ CallsWith(w, "ok") # {}
    /\ \E l \in DOMAIN lists : lists[l].promise.state = "resolved"

\* C14: a createFile call is issued only once the stream's end was seen, and
\* its content is the chunks delivered before the end, in arrival order.
C14_CommitAfterEndWithAllChunks ==
    \A w \in DOMAIN writes :
        \A i \in 1..Len(calls[w]) :
            /\ Ended(writes[w])
            /\ calls[w][i].params.content = Delivered(writes[w].events)

\* C14 witness: a call whose content is two different chunks, in the order
\* they came.
C14_Witness ==
    \E w \in DOMAIN writes :
        /\ Len(calls[w]) = 1
        /\ Len(writes[w].events) >= 3
        /\ writes[w].events[1] = DataEvent(<<"y">>)
        /\ writes[w].events[2] = DataEvent(<<"x">>)
        /\ calls[w][1].params.content = <<"y", "x">>

\* C15: a rejected write has made no commit at the backend, and a resolved
\* write has made exactly one.
C15_MutationOnlyOnSuccess ==
    \A w \in DOMAIN writes :
        /\ writes[w].promise.state = "rejected" => CallsWith(w, "ok") = {}
        /\ writes[w].promise.state = "resolved" => Cardinality(CallsWith(w, "ok")) = 1

\* the owner, repo, ref and file path a raw-content URL names:
\* https://raw.githubusercontent.com/<owner>/<repo>/<ref>/<file path>
CutAtSlash(s) ==
    LET i == Min({j \in 1..Len(s) : s[j] = "/"} \cup {Len(s) + 1})
    IN  [head |-> SubSeq(s, 1, i - 1), rest |-> SubSeq(s, i + 1, Len(s))]

URLLocation(url) ==
    LET a == CutAtSlash(SubSeq(url, Len(S_rawhost) + 1, Len(url)))
        b == CutAtSlash(a.rest)
        c == CutAtSlash(b.rest)
    IN  [owner |-> a.head, repo |-> b.head, branch |-> c.head, path |-> c.rest]

\* C16: every createFile call of a write targets the configured owner and
\* repo, the branch ref and the file storageTopLevel/path, and the URL a
\* write is resolved with names that same owner, repo, ref and file.
C16_CommitAndURLSameLocation ==
    \A w \in DOMAIN writes :
        LET target == [owner |-> driver.owner, repo |-> driver.repo,
                       branch |-> driver.ref, path |-> OwnPath(w)]
        IN  /\ \A i \in 1..Len(calls[w]) :
                  [owner |-> calls[w][i].params.owner,
                   repo |-> calls[w][i].params.repo,
                   branch |-> calls[w][i].params.branch,
                   path |-> calls[w][i].params.path] = target
            /\ writes[w].promise.state = "resolved"
                  => URLLocation(writes[w].promise.value.url) = target

\* the segments of a path: split at "/", empty segments dropped
RECURSIVE Split(_, _)
Split(s, cur) ==
    IF s = <<>> THEN (IF cur = <<>> THEN <<>> ELSE <<cur>>)
    ELSE IF Head(s) = "/"
         THEN (IF cur = <<>> THEN <<>> ELSE <<cur>>) \o Split(Tail(s), <<>>)
         ELSE Split(Tail(s), Append(cur, Head(s)))

Segments(s) == Split(s, <<>>)
DirSegments(s) == SubSeq(Segments(s), 1, Len(Segments(s)) - 1)

\* C18: a list of storageTopLevel that is called after a write of a path
\* without "/" under the same storageTopLevel was resolved asks for the
\* directory, of the same owner and repo, that holds the committed file.
C18_ListAfterWriteSameDirectory ==
    [][\A w \in DOMAIN writes, l \in DOMAIN lists :
         (/\ writes[w].promise.state = "resolved"
          /\ \A j \in 1..Len(writes[w].path) : writes[w].path[j] # "/"
          /\ lists[l].phase = "idle"
          /\ lists'[l].phase = "called"
          /\ lists'[l].storageTopLevel = writes[w].storageTopLevel)
         => \A i \in CallsWith(w, "ok") :
              /\ lists'[l].params.owner = calls[w][i].params.owner
              /\ lists'[l].params.repo = calls[w][i].params.repo
              /\ Segments(lists'[l].params.path)
                    = DirSegments(calls[w][i].params.path)]_vars

(***************************************************************************)
(* Properties of isPathValid.                                              *)
(***************************************************************************)
\* C11: isPathValid(p) is false exactly when p has two consecutive dots
\* somewhere, and true otherwise.
C11_PathValidIffNoDotDot ==
    ret.op = "isPathValid" => (ret.bool <=> ~ContainsDotDot(ret.arg))

\* C11 witness: a path with two dots, never two in a row, was found valid.
C11_Witness ==
    /\ ret.op = "isPathValid"
    /\ ret.bool
    /\ Cardinality({i \in 1..Len(ret.arg) : ret.arg[i] = "."}) >= 2

(***************************************************************************)
(* Properties of listFiles.                                                *)
(***************************************************************************)
\* C7: a list whose getContents call returned entries is resolved with the
\* entries' names, in the same order and number, and with page null.
C7_ListResolvesWithNames ==
    \A l \in DOMAIN lists :
        lists[l].call = "ok"
        => /\ lists[l].promise.state = "resolved"
           /\ Len(lists[l].promise.value.entries) = Len(lists[l].results)
           /\ \A i \in 1..Len(lists[l].results) :
                 lists[l].promise.value.entries[i] = lists[l].results[i].name
           /\ lists[l].promise.value.page = Null

\* C8: a list whose getContents call failed is rejected.
C8_ListRejectedOnBackendFailure ==
    \A l \in DOMAIN lists :
        lists[l].call = "failed" => lists[l].promise.state = "rejected"

(***************************************************************************)
(* Properties of the constructor.                                          *)
(***************************************************************************)
Constructed == driver.state # "new"

HasKey(k) == config.hasGh /\ k \in DOMAIN config.gh
Given(k) == HasKey(k) /\ config.gh[k] # <<>>
SupportedAuth == HasKey("authtype") /\ config.gh["authtype"] \in {S_token, S_oauth}
FailedWith(msgs) == driver.state = "failed" /\ driver.error \in msgs

\* C9, as claimed: an absent or unsupported authtype fails with
\* UnsupportedAuthType whatever the other fields are; a supported one with an
\* absent or empty token fails with MissingCredential.
C9_AuthErrors ==
    Constructed
    => /\ ~SupportedAuth => FailedWith({UnsupportedAuthType})
       /\ (SupportedAuth /\ ~Given("token")) => FailedWith(MissingCredential)

\* C9, amended: the same when ghConfig has at least one key; when ghConfig is
\* absent or has no key, the constructor fails with "Configuration is missing
\* for GitHub driver".
C9_AuthErrorsOfNonEmptyConfig ==
    Constructed
    => /\ (config.hasGh /\ DOMAIN config.gh # {} /\ ~SupportedAuth)
            => FailedWith({UnsupportedAuthType})
       /\ (~config.hasGh \/ DOMAIN config.gh = {}) => FailedWith({ConfigMissing})
       /\ (SupportedAuth /\ ~Given("token")) => FailedWith(MissingCredential)

\* C9 witness: authtype is absent, every other field is given, and the
\* constructor has failed with UnsupportedAuthType.
C9_Witness ==
    /\ FailedWith({UnsupportedAuthType})
    /\ ~HasKey("authtype")
    /\ \A k \in Keys \ {"authtype"} : Given(k)

\* C10: with a supported authtype and a token, an absent or empty owner or
\* repo fails with MissingIdentifier; otherwise the construction succeeds,
\* path and ref are "/" and "master" when not supplied, and as supplied
\* when supplied non-empty.
C10_IdentifiersAndDefaults ==
    (Constructed /\ SupportedAuth /\ Given("token"))
    => /\ (~Given("owner") \/ ~Given("repo")) => FailedWith(MissingIdentifier)
       /\ (Given("owner") /\ Given("repo"))
            => /\ driver.state = "constructed"
               /\ driver.owner = config.gh["owner"]
               /\ driver.repo = config.gh["repo"]
               /\ driver.path = IF Given("path") THEN config.gh["path"] ELSE <<"/">>
               /\ driver.ref = IF Given("ref") THEN config.gh["ref"]
                                ELSE <<"m", "a", "s", "t", "e", "r">>

\* C10 witness: only authtype, token, owner and repo are given, and the
\* instance has the default path and ref.
C10_Witness ==
    /\ driver.state = "constructed"
    /\ DOMAIN config.gh = {"authtype", "token", "owner", "repo"}
    /\ driver.path = <<"/">>
    /\ driver.ref = <<"m", "a", "s", "t", "e", "r">>

\* C17: two lists of the same storageTopLevel make the same getContents call,
\* for the path driver.path + "/" + storageTopLevel, whatever page each was
\* given; answered with the same entries, they have the same outcome, and a
\* result's page is null.
C17_PageHasNoEffect ==
    \A l, k \in DOMAIN lists :
        (/\ lists[l].phase = "called"
         /\ lists[k].phase = "called"
         /\ lists[l].storageTopLevel = lists[k].storageTopLevel)
        => /\ lists[l].call # "none"
           /\ lists[l].params = lists[k].params
           /\ lists[l].params.path
                = driver.path \o <<"/">> \o lists[l].storageTopLevel
           /\ (/\ lists[l].call = "ok"
               /\ lists[k].call = "ok"
               /\ lists[l].results = lists[k].results)
              => /\ lists[l].promise = lists[k].promise
                 /\ lists[l].promise.state = "resolved"
                      => lists[l].promise.value.page = Null

\* C17 witness: two lists, one called with null and one with a token, have
\* been answered with the same two entries and are resolved.
C17_Witness ==
    \E l, k \in DOMAIN lists :
        /\ lists[l].page = Null
        /\ lists[k].page = Str(<<"p">>)
        /\ lists[l].promise.state = "resolved"
        /\ lists[k].promise.state = "resolved"
        /\ Len(lists[l].results) = 2
        /\ lists[l].results = lists[k].results

====
